---------------------------- MODULE Spec2Model ----------------------------
(***************************************************************************)
(* A model of the WAH and BBC bitmap codecs of wah-bbc-compression         *)
(* (src/lib/wah.py, src/lib/bbc.py) and of the round-trip driver of        *)
(* src/fuzz.py.  A bit string (bitstring.BitArray) is a sequence over      *)
(* {0, 1}, leftmost bit first.  Every call is run as a small state         *)
(* machine: "entry" (argument checks), "loop" (one action per iteration    *)
(* of the while loop), and then "return" or "raise".                       *)
(***************************************************************************)
EXTENDS Integers, Sequences, FiniteSets, TLC

VARIABLES
    codec,          \* "wah" | "bbc": the module whose functions are run
    mode,           \* "roundtrip": decompress(compress(orig)); "decode": decompress(orig)
    call,           \* "compress" | "decompress": the function being executed
    pc,             \* "entry" | "loop" | "return" | "raise"
    err,            \* the exception raised, "none" while there is none
    orig,           \* the bits first handed to the codec
    bs,             \* local bs: the bits not yet consumed
    result,         \* local result: the bits produced so far
    word_size,      \* WAH word size argument
    final_length,   \* WAH final_length (local of compress, argument of decompress)
    cut_partial,    \* whether BitArray.cut yields a trailing chunk shorter than 8 bits
    self,           \* the lib.bitstring.BitString object: its bits and length
    args,           \* the arguments of the BitString call
    ret             \* what the BitString call returned

vars == <<codec, mode, call, pc, err, orig, bs, result, word_size,
          final_length, cut_partial, self, args, ret>>

---------------------------------------------------------------------------
(* Bounds of the model.                                                    *)

MaxWordSize == 5
MaxBits == 8
MaxRunBits == 32
MaxGapBytes == 7
MaxBytes == 2
MaxOutBits == 160
MaxLongGapBytes == 130
MaxLiteralBytes == 16
MaxBSLen == 4
MaxOverflowBytes == 2
MaxOpLen == 3
SliceMargin == 5

---------------------------------------------------------------------------
(* bitstring.BitArray, as the codecs use it.                               *)

Min(a, b) == IF a < b THEN a ELSE b

\* [bit] * n
Rep(bit, n) == [i \in 1..n |-> bit]

\* s[a:b] for 0 <= a, 0 <= b: out-of-range bounds are clamped, never an error
Slice(s, a, b) == SubSeq(s, a + 1, Min(b, Len(s)))

\* s[a:]
From(s, a) == SubSeq(s, a + 1, Len(s))

\* s.find(bit): the 0-based position of the first such bit, -1 for the empty tuple
Find(s, bit) ==
    IF \E i \in 1..Len(s) : s[i] = bit
    THEN (CHOOSE i \in 1..Len(s) : s[i] = bit /\ \A j \in 1..(i - 1) : s[j] # bit) - 1
    ELSE -1

\* s.count(1)
Count1(s) == Cardinality({i \in 1..Len(s) : s[i] = 1})

\* s.uint, for a non-empty s (an empty one raises InterpretError)
RECURSIVE UInt(_)
UInt(s) == IF Len(s) = 0 THEN 0 ELSE 2 * UInt(SubSeq(s, 1, Len(s) - 1)) + s[Len(s)]

\* BitArray(uint=n, length=len), for 0 <= n < 2^len
UIntBits(n, len) == [i \in 1..len |-> (n \div (2 ^ (len - i))) % 2]

\* BitArray(uint=n, length=len) raises CreationError unless n fits len >= 1 bits
UIntFits(n, len) == len >= 1 /\ 0 <= n /\ n < 2 ^ len

all_bits(bit_count) == 2 ^ bit_count - 1

\* all bit strings of at most n bits
RECURSIVE BitStrings(_)
BitStrings(n) ==
    IF n = 0 THEN {<<>>}
    ELSE LET shorter == BitStrings(n - 1)
         IN shorter \cup {Append(s, b) : s \in {t \in shorter : Len(t) = n - 1}, b \in {0, 1}}

---------------------------------------------------------------------------
(* src/lib/wah.py                                                          *)

MutRunLengthCapShort(b, w) ==
    IF Len(b) = 0 THEN 0
    ELSE LET section_size == w - 1
             bit_idx == Find(b, 1 - b[1])
             run_bits == IF bit_idx # -1 THEN bit_idx ELSE Len(b)
         IN IF run_bits < section_size THEN 0
            ELSE Min(2 ^ (section_size - 1) - 2, run_bits \div section_size)

MutRunLengthUnclamped(b, w) ==
    IF Len(b) = 0 THEN 0
    ELSE LET section_size == w - 1
             bit_idx == Find(b, 1 - b[1])
             run_bits == IF bit_idx # -1 THEN bit_idx ELSE Len(b)
         IN IF run_bits < section_size THEN 0
            ELSE run_bits \div section_size

MutRunLengthAtLeastOne(b, w) ==
    IF Len(b) = 0 THEN 0
    ELSE LET section_size == w - 1
             bit_idx == Find(b, 1 - b[1])
             run_bits == IF bit_idx # -1 THEN bit_idx ELSE Len(b)
         IN IF run_bits < section_size THEN 0
            ELSE IF 2 ^ (section_size - 1) - 1 < 1 THEN 1
            ELSE Min(2 ^ (section_size - 1) - 1, run_bits \div section_size)

MutRunLengthOneSection(b, w) ==
    IF Len(b) = 0 THEN 0
    ELSE LET section_size == w - 1
             bit_idx == Find(b, 1 - b[1])
             run_bits == IF bit_idx # -1 THEN bit_idx ELSE Len(b)
         IN IF run_bits < section_size THEN 0
            ELSE Min(Min(1, 2 ^ (section_size - 1) - 1), run_bits \div section_size)

run_length(b, w) ==
    IF Len(b) = 0 THEN 0
    ELSE LET section_size == w - 1
             bit_idx == Find(b, 1 - b[1])
             run_bits == IF bit_idx # -1 THEN bit_idx ELSE Len(b)
         IN IF run_bits < section_size THEN 0
            ELSE Min(2 ^ (section_size - 1) - 1, run_bits \div section_size)

\* encode_run returns (tail, encoded_run)
MutEncodeRunOneSection(b, w) ==
    LET runs == run_length(b, w)
        section_size == w - 1
    IN [tail |-> From(b, section_size),
        word |-> <<1>> \o Slice(b, 0, 1) \o UIntBits(runs, section_size - 1)]

encode_run(b, w) ==
    LET runs == run_length(b, w)
        section_size == w - 1
    IN [tail |-> From(b, section_size * runs),
        word |-> <<1>> \o Slice(b, 0, 1) \o UIntBits(runs, section_size - 1)]

\* encode_literal returns (tail, encoded_literal)
MutEncodeLiteralPadLeft(b, w) ==
    IF Len(b) = 0 THEN [tail |-> b, word |-> Rep(0, w)]
    ELSE LET section_size == w - 1
             literal == Slice(b, 0, section_size)
         IN [tail |-> From(b, section_size),
             word |-> <<0>> \o (IF Len(literal) < section_size
                                THEN Rep(0, section_size - Len(literal)) ELSE <<>>)
                      \o literal]

encode_literal(b, w) ==
    IF Len(b) = 0 THEN [tail |-> b, word |-> Rep(0, w)]
    ELSE LET section_size == w - 1
             literal == Slice(b, 0, section_size)
         IN [tail |-> From(b, section_size),
             word |-> <<0>> \o literal
                      \o (IF Len(literal) < section_size
                          THEN Rep(0, section_size - Len(literal)) ELSE <<>>)]

\* the checks that open compress and decompress
MutEmptyInput(b) == Len(b) < 0

EmptyInput(b) == Len(b) = 0

MutInvalidWordSize(w) == w <= 0

InvalidWordSize(w) == w <= 1

MutInvalidFinalLength(fl, w) == fl > w

InvalidFinalLength(fl, w) == ~(1 <= fl /\ fl <= w)

\* final_length as compress sets it before encoding a literal
MutLiteralFinalLengthWord(b, w) == w

MutLiteralFinalLengthOffByOne(b, w) == Min(w, Len(b))

MutLiteralFinalLengthSection(b, w) == Min(w - 1, Len(b) + 1)

literal_final_length(b, w) == Min(w, Len(b) + 1)

\* the while loop of compress from the state (b, result, final_length) on,
\* as a function: what compress returns, or the exception it raises
RECURSIVE compress_loop(_, _, _, _)
compress_loop(b, w, res, fl) ==
    IF Len(b) = 0 THEN [exc |-> "none", result |-> res, final_length |-> fl]
    ELSE LET run_count == run_length(b, w)
         IN IF run_count = 0
            THEN LET enc == encode_literal(b, w)
                 IN compress_loop(enc.tail, w, res \o enc.word, literal_final_length(b, w))
            ELSE IF ~UIntFits(run_count, w - 2)
            THEN [exc |-> "CreationError", result |-> res, final_length |-> fl]
            ELSE LET enc == encode_run(b, w)
                 IN compress_loop(enc.tail, w, res \o enc.word, fl)

\* wah.compress(b, w) as a function
wah_compress(b, w) ==
    IF EmptyInput(b) \/ InvalidWordSize(w)
    THEN [exc |-> "ValueError", result |-> <<>>, final_length |-> 0]
    ELSE compress_loop(b, w, <<>>, w)

Raise(kind) ==
    /\ pc' = "raise"
    /\ err' = kind

WahCompressEntry ==
    /\ codec = "wah" /\ call = "compress" /\ pc = "entry"
    /\ IF EmptyInput(bs) \/ InvalidWordSize(word_size)
       THEN Raise("ValueError") /\ UNCHANGED <<result, final_length>>
       ELSE /\ pc' = "loop"
            /\ result' = <<>>
            /\ final_length' = word_size
            /\ UNCHANGED err
    /\ UNCHANGED <<codec, mode, call, orig, bs, word_size, cut_partial, self, args, ret>>

\* one iteration of the while loop of compress
WahCompressLoop ==
    /\ codec = "wah" /\ call = "compress" /\ pc = "loop"
    /\ Len(bs) > 0
    /\ LET run_count == run_length(bs, word_size)
       IN IF run_count = 0
          THEN LET enc == encode_literal(bs, word_size)
               IN /\ final_length' = literal_final_length(bs, word_size)
                  /\ bs' = enc.tail
                  /\ result' = result \o enc.word
                  /\ UNCHANGED <<pc, err>>
          ELSE IF ~UIntFits(run_count, word_size - 2)
          THEN Raise("CreationError") /\ UNCHANGED <<bs, result, final_length>>
          ELSE LET enc == encode_run(bs, word_size)
               IN /\ bs' = enc.tail
                  /\ result' = result \o enc.word
                  /\ UNCHANGED <<pc, err, final_length>>
    /\ UNCHANGED <<codec, mode, call, orig, word_size, cut_partial, self, args, ret>>

WahCompressReturn ==
    /\ codec = "wah" /\ call = "compress" /\ pc = "loop"
    /\ Len(bs) = 0
    /\ pc' = "return"
    /\ UNCHANGED <<codec, mode, call, err, orig, bs, result, word_size,
                   final_length, cut_partial, self, args, ret>>

\* fuzz_wah: wah.decompress(*wah.compress(bs, word_size), word_size)
FuzzWah ==
    /\ codec = "wah" /\ mode = "roundtrip" /\ call = "compress" /\ pc = "return"
    /\ call' = "decompress"
    /\ pc' = "entry"
    /\ bs' = result
    /\ result' = <<>>
    /\ UNCHANGED <<codec, mode, err, orig, word_size, final_length, cut_partial, self, args, ret>>

WahDecompressEntry ==
    /\ codec = "wah" /\ call = "decompress" /\ pc = "entry"
    /\ IF EmptyInput(bs) \/ InvalidWordSize(word_size)
          \/ InvalidFinalLength(final_length, word_size)
       THEN Raise("ValueError") /\ UNCHANGED result
       ELSE /\ pc' = "loop"
            /\ result' = <<>>
            /\ UNCHANGED err
    /\ UNCHANGED <<codec, mode, call, orig, bs, word_size, final_length, cut_partial, self, args, ret>>

\* one iteration of the while loop of decompress
WahDecompressLoop ==
    /\ codec = "wah" /\ call = "decompress" /\ pc = "loop"
    /\ Len(bs) > 0
    /\ LET next_word == Slice(bs, 0, word_size)
           rest == From(bs, word_size)
           is_run == next_word[1] = 1
       IN IF is_run
          THEN IF Len(next_word) < 2
               THEN Raise("IndexError") /\ UNCHANGED <<bs, result>>
               ELSE IF Len(next_word) = 2
               THEN Raise("InterpretError") /\ UNCHANGED <<bs, result>>
               ELSE LET run_type == next_word[2]
                        runs == UInt(From(next_word, 2))
                        section_size == word_size - 1
                    IN /\ result' = result \o Rep(run_type, section_size * runs)
                       /\ bs' = rest
                       /\ UNCHANGED <<pc, err>>
          ELSE LET lit == IF Len(rest) > 0
                          THEN From(next_word, 1)
                          ELSE Slice(next_word, 1, final_length)
               IN /\ result' = result \o lit
                  /\ bs' = rest
                  /\ UNCHANGED <<pc, err>>
    /\ UNCHANGED <<codec, mode, call, orig, word_size, final_length, cut_partial, self, args, ret>>

WahDecompressReturn ==
    /\ codec = "wah" /\ call = "decompress" /\ pc = "loop"
    /\ Len(bs) = 0
    /\ pc' = "return"
    /\ UNCHANGED <<codec, mode, call, err, orig, bs, result, word_size,
                   final_length, cut_partial, self, args, ret>>

\* an omitted optional argument, and a given one
None == <<>>
Some(v) == <<v>>

\* BitString(): bits 0, length 0
EmptyBitString == [bits |-> 0, length |-> 0]

\* no BitString call: the codecs do not use lib.bitstring
NoArgs == [x |-> <<>>, kind |-> "none", n |-> None, start |-> None, stop |-> None,
           step |-> None, i |-> 0, flag |-> 0]
NoRet == [kind |-> "none", value |-> 0]

\* the all-zero and the all-one bit strings of at most n bits
UniformStrings(n) == {Rep(bit, len) : bit \in {0, 1}, len \in 0..n}

\* the arguments of one WAH run: a fuzz round trip of s, or decompress(s, fl, w)
InitWAH ==
    /\ codec = "wah"
    /\ mode \in {"roundtrip", "decode"}
    /\ word_size \in -1..MaxWordSize
    /\ orig \in BitStrings(MaxBits) \cup UniformStrings(MaxRunBits)
    /\ bs = orig
    /\ result = <<>>
    /\ pc = "entry"
    /\ err = "none"
    /\ cut_partial = FALSE
    /\ self = EmptyBitString /\ args = NoArgs /\ ret = NoRet
    /\ IF mode = "roundtrip"
       THEN call = "compress" /\ final_length = 0
       ELSE call = "decompress" /\ final_length \in -1..(MaxWordSize + 1)

NextWAH ==
    \/ WahCompressEntry
    \/ WahCompressLoop
    \/ WahCompressReturn
    \/ FuzzWah
    \/ WahDecompressEntry
    \/ WahDecompressLoop
    \/ WahDecompressReturn

SpecWAH == InitWAH /\ [][NextWAH]_vars

---------------------------------------------------------------------------
(* src/lib/bbc.py                                                          *)

bits_per_byte == 8

header_gap_bits == 3

max_gap_bits == 2 * bits_per_byte - 1

literal_max == 15

\* get_gaps returns (tail, gaps)
MutGetGapsRoundUp(b) ==
    LET bit_idx == Find(b, 1)
        gap_bits == IF bit_idx # -1 THEN bit_idx ELSE Len(b)
        gap_max == all_bits(max_gap_bits)
    IN IF gap_bits < bits_per_byte THEN [tail |-> b, gaps |-> 0]
       ELSE LET gaps == Min(gap_max, (gap_bits + bits_per_byte - 1) \div bits_per_byte)
            IN [tail |-> From(b, gaps * bits_per_byte), gaps |-> gaps]

get_gaps(b) ==
    LET bit_idx == Find(b, 1)
        gap_bits == IF bit_idx # -1 THEN bit_idx ELSE Len(b)
        gap_max == all_bits(max_gap_bits)
    IN IF gap_bits < bits_per_byte THEN [tail |-> b, gaps |-> 0]
       ELSE LET gaps == Min(gap_max, gap_bits \div bits_per_byte)
            IN [tail |-> From(b, gaps * bits_per_byte), gaps |-> gaps]

MutDirtyBitPosAnyCount(b) ==
    LET byte == Slice(b, 0, bits_per_byte)
    IN Find(byte, 1)

dirty_bit_pos(b) ==
    LET byte == Slice(b, 0, bits_per_byte)
    IN IF Count1(byte) # 1 THEN -1 ELSE Find(byte, 1)

\* the number of chunks of b.cut(8) the loop of get_literals takes, having
\* taken count already; partial: cut also yields a last chunk under 8 bits
RECURSIVE MutLiteralCountLimitLate(_, _, _)
MutLiteralCountLimitLate(b, count, partial) ==
    LET byte == Slice(b, count * bits_per_byte, (count + 1) * bits_per_byte)
    IN IF Len(byte) = 0 \/ (Len(byte) < bits_per_byte /\ ~partial) THEN count
       ELSE IF Count1(byte) = 0 THEN count
       ELSE IF count = literal_max THEN count + 1
       ELSE MutLiteralCountLimitLate(b, count + 1, partial)

RECURSIVE literal_count(_, _, _)
literal_count(b, count, partial) ==
    LET byte == Slice(b, count * bits_per_byte, (count + 1) * bits_per_byte)
    IN IF Len(byte) = 0 \/ (Len(byte) < bits_per_byte /\ ~partial) THEN count
       ELSE IF Count1(byte) = 0 THEN count
       ELSE IF count + 1 = literal_max THEN count + 1
       ELSE literal_count(b, count + 1, partial)

\* get_literals returns (tail, literals)
MutGetLiteralsLimitLate(b, partial) ==
    LET count == MutLiteralCountLimitLate(b, 0, partial)
    IN [tail |-> From(b, count * bits_per_byte),
        literals |-> Slice(b, 0, count * bits_per_byte)]

get_literals(b, partial) ==
    LET count == literal_count(b, 0, partial)
    IN [tail |-> From(b, count * bits_per_byte),
        literals |-> Slice(b, 0, count * bits_per_byte)]

\* the gap-extension bytes create_atom puts after the header
MutGapExtensionOneByteWide(gaps) ==
    LET header_gap_max == all_bits(header_gap_bits)
    IN IF header_gap_max <= gaps /\ gaps <= all_bits(bits_per_byte)
       THEN UIntBits(gaps, bits_per_byte)
       ELSE IF all_bits(bits_per_byte) < gaps /\ gaps <= all_bits(max_gap_bits)
       THEN LET upper == gaps \div (2 ^ bits_per_byte)
                lower == gaps % (2 ^ bits_per_byte)
            IN <<1>> \o UIntBits(upper, bits_per_byte - 1) \o UIntBits(lower, bits_per_byte)
       ELSE <<>>

gap_extension(gaps) ==
    LET header_gap_max == all_bits(header_gap_bits)
    IN IF header_gap_max <= gaps /\ gaps <= all_bits(bits_per_byte - 1)
       THEN UIntBits(gaps, bits_per_byte)
       ELSE IF all_bits(bits_per_byte - 1) < gaps /\ gaps <= all_bits(max_gap_bits)
       THEN LET upper == gaps \div (2 ^ bits_per_byte)
                lower == gaps % (2 ^ bits_per_byte)
            IN <<1>> \o UIntBits(upper, bits_per_byte - 1) \o UIntBits(lower, bits_per_byte)
       ELSE <<>>

\* create_atom raises ValueError for a gap count above 2^15 - 1
gaps_too_large(gaps) == gaps > all_bits(max_gap_bits)

MutCreateAtomDirtyLiterals(gaps, is_dirty, special, literals) ==
    LET header_gap_max == all_bits(header_gap_bits)
        header_gap_count == Min(gaps, header_gap_max)
    IN UIntBits(header_gap_count, 3)
       \o UIntBits(IF is_dirty THEN 1 ELSE 0, 1)
       \o UIntBits(special, 4)
       \o gap_extension(gaps)
       \o literals

create_atom(gaps, is_dirty, special, literals) ==
    LET header_gap_max == all_bits(header_gap_bits)
        header_gap_count == Min(gaps, header_gap_max)
    IN UIntBits(header_gap_count, 3)
       \o UIntBits(IF is_dirty THEN 1 ELSE 0, 1)
       \o UIntBits(special, 4)
       \o gap_extension(gaps)
       \o (IF ~is_dirty THEN literals ELSE <<>>)

BbcCompressEntry ==
    /\ codec = "bbc" /\ call = "compress" /\ pc = "entry"
    /\ IF EmptyInput(bs)
       THEN Raise("ValueError") /\ UNCHANGED result
       ELSE /\ pc' = "loop"
            /\ result' = <<>>
            /\ UNCHANGED err
    /\ UNCHANGED <<codec, mode, call, orig, bs, word_size, final_length, cut_partial, self, args, ret>>

\* one iteration of the while loop of compress; an input the loop never
\* exhausts is followed until MaxOutBits bits are out
BbcCompressLoop ==
    /\ codec = "bbc" /\ call = "compress" /\ pc = "loop"
    /\ Len(bs) > 0
    /\ Len(result) < MaxOutBits
    /\ LET g == get_gaps(bs)
           lookahead_byte == Slice(g.tail, bits_per_byte, 2 * bits_per_byte)
           offset_as_literal == Count1(lookahead_byte) > 0
           dirty_bit == dirty_bit_pos(g.tail)
           is_dirty == dirty_bit # -1 /\ ~offset_as_literal
           lits == get_literals(g.tail, cut_partial)
           tail == IF is_dirty THEN From(g.tail, bits_per_byte) ELSE lits.tail
           literals == IF is_dirty THEN <<>> ELSE lits.literals
           special == IF is_dirty THEN dirty_bit ELSE Len(literals) \div bits_per_byte
       IN IF gaps_too_large(g.gaps)
          THEN Raise("ValueError") /\ UNCHANGED <<bs, result>>
          ELSE /\ bs' = tail
               /\ result' = result \o create_atom(g.gaps, is_dirty, special, literals)
               /\ UNCHANGED <<pc, err>>
    /\ UNCHANGED <<codec, mode, call, orig, word_size, final_length, cut_partial, self, args, ret>>

BbcCompressReturn ==
    /\ codec = "bbc" /\ call = "compress" /\ pc = "loop"
    /\ Len(bs) = 0
    /\ pc' = "return"
    /\ UNCHANGED <<codec, mode, call, err, orig, bs, result, word_size,
                   final_length, cut_partial, self, args, ret>>

\* fuzz_bbc: bbc.decompress(bbc.compress(bs))
FuzzBbc ==
    /\ codec = "bbc" /\ mode = "roundtrip" /\ call = "compress" /\ pc = "return"
    /\ call' = "decompress"
    /\ pc' = "entry"
    /\ bs' = result
    /\ result' = <<>>
    /\ UNCHANGED <<codec, mode, err, orig, word_size, final_length, cut_partial, self, args, ret>>

BbcDecompressEntry ==
    /\ codec = "bbc" /\ call = "decompress" /\ pc = "entry"
    /\ IF EmptyInput(bs)
       THEN Raise("ValueError") /\ UNCHANGED result
       ELSE /\ pc' = "loop"
            /\ result' = <<>>
            /\ UNCHANGED err
    /\ UNCHANGED <<codec, mode, call, orig, bs, word_size, final_length, cut_partial, self, args, ret>>

\* the two length checks of the loop of decompress
header_missing(b) == Len(b) < bits_per_byte

MutLiteralsMissing(b, special) == Len(b) < special

literals_missing(b, special) == Len(b) < special * bits_per_byte

\* the bits one atom expands to, without its literals
atom_gap(header_byte) == Rep(0, UInt(Slice(header_byte, 0, 3)) * bits_per_byte)

MutOffsetByteFromRight(special) ==
    LET end_bits == special
    IN UIntBits(1, bits_per_byte - end_bits)
       \o (IF end_bits > 0 THEN Rep(0, end_bits) ELSE <<>>)

offset_byte(special) ==
    LET end_bits == bits_per_byte - special - 1
    IN UIntBits(1, bits_per_byte - end_bits)
       \o (IF end_bits > 0 THEN Rep(0, end_bits) ELSE <<>>)

\* one iteration of the while loop of decompress
BbcDecompressLoop ==
    /\ codec = "bbc" /\ call = "decompress" /\ pc = "loop"
    /\ Len(bs) > 0
    /\ IF header_missing(bs)
       THEN Raise("ValueError") /\ UNCHANGED <<bs, result>>
       ELSE LET header_byte == Slice(bs, 0, bits_per_byte)
                rest == From(bs, bits_per_byte)
                is_dirty == header_byte[4] = 1
                special == UInt(From(header_byte, 4))
                lit_bits == special * bits_per_byte
            IN IF is_dirty
               THEN /\ result' = result \o atom_gap(header_byte) \o offset_byte(special)
                    /\ bs' = rest
                    /\ UNCHANGED <<pc, err>>
               ELSE IF literals_missing(rest, special)
               THEN Raise("ValueError") /\ UNCHANGED <<bs, result>>
               ELSE /\ result' = result \o atom_gap(header_byte) \o Slice(rest, 0, lit_bits)
                    /\ bs' = From(rest, lit_bits)
                    /\ UNCHANGED <<pc, err>>
    /\ UNCHANGED <<codec, mode, call, orig, word_size, final_length, cut_partial, self, args, ret>>

BbcDecompressReturn ==
    /\ codec = "bbc" /\ call = "decompress" /\ pc = "loop"
    /\ Len(bs) = 0
    /\ pc' = "return"
    /\ UNCHANGED <<codec, mode, call, err, orig, bs, result, word_size,
                   final_length, cut_partial, self, args, ret>>

\* the bytes the BBC inputs are built from: as data, an all-zero byte, two
\* offset bytes and two literal bytes; as a stream to decode, a header with
\* no literals, headers announcing 1 and 7 literal bytes, a dirty header and
\* a header with gap field 7
InputBytes ==
    { <<0,0,0,0,0,0,0,0>>, <<0,0,0,0,0,0,0,1>>, <<0,0,0,0,0,1,1,1>>,
      <<0,0,1,1,0,0,1,0>>, <<1,1,1,0,0,0,0,0>> }

\* the bits left over when the input is not a whole number of bytes
InputTails == { <<>>, <<0>>, <<1>>, <<1,1>> }

\* the concatenations of at most n bytes of InputBytes
RECURSIVE ByteStrings(_)
ByteStrings(n) ==
    IF n = 0 THEN {<<>>}
    ELSE LET shorter == ByteStrings(n - 1)
         IN shorter \cup {s \o b : s \in {t \in shorter : Len(t) = (n - 1) * bits_per_byte},
                                   b \in InputBytes}

\* n copies of one byte
RepByte(byte, n) == [i \in 1..(n * bits_per_byte) |-> byte[((i - 1) % bits_per_byte) + 1]]

\* long gaps, alone or before one byte
LongGaps ==
    { Rep(0, k * bits_per_byte) \o body :
        k \in (MaxGapBytes + 1)..MaxLongGapBytes, body \in ByteStrings(1) }

\* long runs of one non-zero byte, up to the end or to an all-zero byte
LiteralRuns ==
    { RepByte(byte, n) \o t :
        byte \in {b \in InputBytes : Count1(b) > 0},
        n \in (MaxBytes + 1)..MaxLiteralBytes,
        t \in {<<>>, Rep(0, bits_per_byte)} }

\* compressed data that starts with a dirty atom: any gap field below 7 and
\* any special field, alone or before one more byte
DirtyAtoms ==
    { UIntBits(g, header_gap_bits) \o <<1>> \o UIntBits(special, 4) \o t :
        g \in 0..(all_bits(header_gap_bits) - 1), special \in 0..all_bits(4),
        t \in ByteStrings(1) }

\* the argument of one BBC run: g all-zero bytes, then a few bytes, then a
\* tail; the round trip is also run on the long inputs, decompress also on
\* the dirty atoms
InitBBC ==
    /\ codec = "bbc"
    /\ mode \in {"roundtrip", "decode"}
    /\ cut_partial \in BOOLEAN
    /\ \/ \E g \in 0..MaxGapBytes, body \in ByteStrings(MaxBytes), t \in InputTails :
              orig = Rep(0, g * bits_per_byte) \o body \o t
       \/ mode = "roundtrip" /\ orig \in LongGaps \cup LiteralRuns
       \/ mode = "decode" /\ orig \in DirtyAtoms
    /\ bs = orig
    /\ result = <<>>
    /\ pc = "entry"
    /\ err = "none"
    /\ word_size = 0
    /\ final_length = 0
    /\ self = EmptyBitString /\ args = NoArgs /\ ret = NoRet
    /\ call = (IF mode = "roundtrip" THEN "compress" ELSE "decompress")

NextBBC ==
    \/ BbcCompressEntry
    \/ BbcCompressLoop
    \/ BbcCompressReturn
    \/ FuzzBbc
    \/ BbcDecompressEntry
    \/ BbcDecompressLoop
    \/ BbcDecompressReturn

SpecBBC == InitBBC /\ [][NextBBC]_vars

\* bbc.create_atom(gaps, is_dirty, special, literals), called on its own
BbcCreateAtom ==
    /\ codec = "bbc" /\ call = "create_atom" /\ pc = "entry"
    /\ IF gaps_too_large(args.gaps)
       THEN Raise("ValueError") /\ UNCHANGED ret
       ELSE /\ ret' = [kind |-> "BitArray",
                       value |-> create_atom(args.gaps, args.is_dirty, args.special,
                                             args.literals)]
            /\ pc' = "return"
            /\ UNCHANGED err
    /\ UNCHANGED <<codec, mode, call, orig, bs, result, word_size, final_length,
                   cut_partial, self, args>>

\* the argument bs of get_gaps, kept as its number of leading zero bits and
\* the bits after them
GapInput(a) == Rep(0, a.zero_bits) \o a.rest

\* bbc.get_gaps(bs), called on its own
BbcGetGaps ==
    /\ codec = "bbc" /\ call = "get_gaps" /\ pc = "entry"
    /\ ret' = [kind |-> "tuple", value |-> get_gaps(GapInput(args))]
    /\ pc' = "return"
    /\ UNCHANGED <<codec, mode, call, err, orig, bs, result, word_size, final_length,
                   cut_partial, self, args>>

\* gap counts: the small ones, and those around each power of two up to 2^15
AtomGaps ==
    0..MaxLongGapBytes
    \cup {2 ^ j + d : j \in bits_per_byte..max_gap_bits, d \in {-1, 0, 1}}

\* inputs of get_gaps: z zero bits and a few more bits; gaps of 2^15 - 1 bytes
\* and more
GapInputs ==
    { [zero_bits |-> z, rest |-> t] :
        z \in 0..(MaxGapBytes * bits_per_byte + bits_per_byte - 1),
        t \in {<<>>, <<1>>, <<1, 0, 1>>} }
    \cup { [zero_bits |-> (all_bits(max_gap_bits) + over) * bits_per_byte, rest |-> t] :
             over \in 0..MaxOverflowBytes,
             t \in {<<>>, <<0, 0, 0>>, <<1>>} }

\* the arguments of one call of create_atom or get_gaps
InitBbcUnit ==
    /\ codec = "bbc"
    /\ mode = "call"
    /\ call \in {"create_atom", "get_gaps"}
    /\ pc = "entry"
    /\ err = "none"
    /\ orig = <<>> /\ bs = <<>> /\ result = <<>>
    /\ word_size = 0 /\ final_length = 0 /\ cut_partial = FALSE
    /\ self = EmptyBitString /\ ret = NoRet
    /\ IF call = "create_atom"
       THEN \E gaps \in AtomGaps, is_dirty \in BOOLEAN, special \in 0..all_bits(4),
               literals \in ByteStrings(1) :
               args = [gaps |-> gaps, is_dirty |-> is_dirty, special |-> special,
                       literals |-> literals]
       ELSE args \in GapInputs

NextBbcUnit ==
    \/ BbcCreateAtom
    \/ BbcGetGaps

SpecBbcUnit == InitBbcUnit /\ [][NextBbcUnit]_vars

Init == InitWAH \/ InitBBC

Next == NextWAH \/ NextBBC

Spec == Init /\ [][Next]_vars

---------------------------------------------------------------------------
(* lib.bitstring.BitString: bits is an int, bit 0 of the string is the     *)
(* highest of its length bits.                                             *)

Max(a, b) == IF a > b THEN a ELSE b

\* x & (1 << k) != 0, for x >= 0
BitSet(x, k) == (x \div (2 ^ k)) % 2 = 1

\* BitString(bits, length) for an int bits >= 0: the unused bits are cleared
BitStringInt(bits, length) == [bits |-> bits % (all_bits(length) + 1), length |-> length]

\* from_iter(bits, length) for an iterable x of 0/1 values
from_iter(x, length) ==
    LET count == IF length >= 0 THEN Min(length, Len(x)) ELSE Len(x)
        buf == UInt(Slice(x, 0, count))
    IN BitStringInt(buf, count)

\* the constructor called on a str or another iterable x, with or without a
\* length n; returns the exception and the object constructed
__init__(kind, x, n) ==
    LET length == IF n = None THEN Len(x) ELSE n[1]
        base == IF kind = "str"
                THEN (IF Len(x) = 0 THEN EmptyBitString
                      ELSE [bits |-> UInt(x), length |-> Len(x)])
                ELSE from_iter(x, length)
    IN IF length < 0 THEN [exc |-> "ValueError", obj |-> EmptyBitString]
       ELSE [exc |-> "none",
             obj |-> IF n = None THEN base
                     ELSE [bits |-> base.bits % (all_bits(length) + 1),
                           length |-> length]]

_absolute_index(b, i) == IF i < 0 THEN b.length + i ELSE i

\* start, stop and step are None or Some(int)
_normalize_slice(b, start, stop, step) ==
    LET start1 == IF start = None THEN 0 ELSE _absolute_index(b, start[1])
        stop1 == IF stop = None THEN b.length ELSE _absolute_index(b, stop[1])
        step1 == IF step = None THEN 1 ELSE _absolute_index(b, step[1])
    IN [exc |-> IF step1 < 0 THEN "NotImplementedError"
                ELSE IF step1 = 0 THEN "ValueError" ELSE "none",
        start |-> Max(0, start1),
        stop |-> Min(stop1, b.length),
        step |-> step1]

_right_align_index(b, i) == b.length - 1 - i

\* called by slice with ints; it normalizes them once more
_get_consecutive_bits(b, start, stop) ==
    LET n == _normalize_slice(b, Some(start), Some(stop), Some(1))
    IN IF n.start = 0 /\ n.stop = b.length THEN b
       ELSE IF n.start >= n.stop \/ n.start >= b.length \/ n.stop <= 0
       THEN EmptyBitString
       ELSE LET bits == b.bits \div (2 ^ _right_align_index(b, n.stop - 1))
                length == n.stop - n.start
            IN BitStringInt(bits % (all_bits(length) + 1), length)

MutGetItemWraps(b, key) ==
    IF key < -b.length \/ key >= b.length
    THEN [exc |-> "IndexError", value |-> 0]
    ELSE LET bit_at_key == _right_align_index(b, _absolute_index(b, key))
         IN [exc |-> "none", value |-> IF BitSet(b.bits, bit_at_key) THEN 1 ELSE 0]

\* b[key] for an int key; bit_at_key is kept as the exponent of 1 << ...
__getitem__(b, key) ==
    IF key < 0 \/ key >= b.length
    THEN [exc |-> "IndexError", value |-> 0]
    ELSE LET bit_at_key == _right_align_index(b, key)
         IN [exc |-> "none", value |-> IF BitSet(b.bits, bit_at_key) THEN 1 ELSE 0]

\* b[i] = flag; returns the exception and the object afterwards
__setitem__(b, i, flag) ==
    IF i < 0 \/ i >= b.length
    THEN [exc |-> "IndexError", obj |-> b]
    ELSE LET bit_at_i == _right_align_index(b, i)
             masked == b.bits % (all_bits(b.length) + 1)
         IN [exc |-> "none",
             obj |-> [b EXCEPT !.bits =
                        IF flag # 0
                        THEN (IF BitSet(b.bits, bit_at_i) THEN b.bits
                              ELSE b.bits + 2 ^ bit_at_i)
                        ELSE (IF BitSet(masked, bit_at_i) THEN masked - 2 ^ bit_at_i
                              ELSE masked)]]

\* the for loop of slice: bits[dest] = self[src] over range(src, stop, step)
RECURSIVE slice_loop(_, _, _, _, _, _)
slice_loop(b, bits, dest, src, stop, step) ==
    IF src >= stop THEN [exc |-> "none", obj |-> bits]
    ELSE LET got == __getitem__(b, src)
             put == __setitem__(bits, dest, got.value)
         IN IF got.exc # "none" THEN [exc |-> got.exc, obj |-> bits]
            ELSE IF put.exc # "none" THEN [exc |-> put.exc, obj |-> bits]
            ELSE slice_loop(b, put.obj, dest + 1, src + step, stop, step)

\* b.slice(start, stop, step); returns the exception and the BitString
slice(b, start, stop, step) ==
    LET n == _normalize_slice(b, start, stop, step)
    IN IF n.exc # "none" THEN [exc |-> n.exc, obj |-> EmptyBitString]
       ELSE IF n.step = 1
       THEN [exc |-> "none", obj |-> _get_consecutive_bits(b, n.start, n.stop)]
       ELSE IF n.start >= n.stop \/ n.start >= b.length \/ n.stop <= 0
       THEN [exc |-> "none", obj |-> EmptyBitString]
       ELSE LET slice_span == n.stop - n.start
                slice_count == 1 + (slice_span - 1) \div n.step
            IN slice_loop(b, BitStringInt(0, slice_count), 0, n.start, n.stop, n.step)

\* x | y for x, y >= 0
RECURSIVE BitOr(_, _)
BitOr(x, y) ==
    IF x = 0 THEN y
    ELSE IF y = 0 THEN x
    ELSE 2 * BitOr(x \div 2, y \div 2) + Max(x % 2, y % 2)

\* a == o
__eq__(a, o) == a.length = o.length /\ a.bits = o.bits

\* a + o
__add__(a, o) == BitStringInt(BitOr(a.bits * 2 ^ o.length, o.bits), a.length + o.length)

\* a += o
__iadd__(a, o) ==
    [bits |-> BitOr(a.bits * 2 ^ o.length, o.bits), length |-> a.length + o.length]

\* a << count, a <<= count, a >> count, a >>= count: the exception (of a
\* negative shift count) and the BitString returned
__lshift__(a, count) ==
    IF count < 0 THEN [exc |-> "ValueError", obj |-> a]
    ELSE [exc |-> "none", obj |-> BitStringInt(a.bits * 2 ^ count, a.length + count)]

MutILShiftKeepsLength(a, count) ==
    IF count < 0 THEN [exc |-> "ValueError", obj |-> a]
    ELSE [exc |-> "none", obj |-> [bits |-> a.bits * 2 ^ count, length |-> a.length]]

__ilshift__(a, count) ==
    IF count < 0 THEN [exc |-> "ValueError", obj |-> a]
    ELSE [exc |-> "none",
          obj |-> [bits |-> a.bits * 2 ^ count, length |-> a.length + count]]

__rshift__(a, count) ==
    IF count < 0 THEN [exc |-> "ValueError", obj |-> a]
    ELSE [exc |-> "none",
          obj |-> BitStringInt(a.bits \div 2 ^ count, Max(0, a.length - count))]

__irshift__(a, count) ==
    IF count < 0 THEN [exc |-> "ValueError", obj |-> a]
    ELSE [exc |-> "none",
          obj |-> [bits |-> a.bits \div 2 ^ count, length |-> Max(0, a.length - count)]]

\* ~b: BitString(~self.bits, len(self)), with ~x = -x - 1
__invert__(b) == BitStringInt(-b.bits - 1, b.length)

\* int.bit_length() for x >= 0
RECURSIVE bit_length(_)
bit_length(x) == IF x = 0 THEN 0 ELSE 1 + bit_length(x \div 2)

\* b.run_length(flag), flag None or Some(value)
MutRunLengthIgnoresFlag(b, flag) ==
    LET flag1 == IF b.length > 0 THEN __getitem__(b, 0).value ELSE 0
    IN IF b.length = 0 THEN 0
       ELSE LET bit_len == bit_length((IF flag1 # 0 THEN __invert__(b) ELSE b).bits)
            IN b.length - bit_len

BitString_run_length(b, flag) ==
    LET flag1 == IF flag = None /\ b.length > 0 THEN __getitem__(b, 0).value
                 ELSE IF flag = None THEN 0 ELSE flag[1]
    IN IF b.length = 0 \/ (__getitem__(b, 0).value # 0) # (flag1 # 0) THEN 0
       ELSE LET bit_len == bit_length((IF flag1 # 0 THEN __invert__(b) ELSE b).bits)
            IN b.length - bit_len

\* str(b)
__str__(b) == IF b.length > 0 THEN UIntBits(b.bits, b.length) ELSE <<>>

\* new BitString(x, n) or BitString(x)
BsConstruct ==
    /\ codec = "bitstring" /\ call = "BitString" /\ pc = "entry"
    /\ LET made == __init__(args.kind, args.x, args.n)
       IN IF made.exc # "none"
          THEN Raise(made.exc) /\ UNCHANGED <<self, ret>>
          ELSE /\ self' = made.obj
               /\ pc' = "return"
               /\ UNCHANGED <<err, ret>>
    /\ UNCHANGED <<codec, mode, call, orig, bs, result, word_size, final_length,
                   cut_partial, args>>

\* self.slice(start, stop, step)
BsSlice ==
    /\ codec = "bitstring" /\ call = "slice" /\ pc = "entry"
    /\ LET got == slice(self, args.start, args.stop, args.step)
       IN IF got.exc # "none"
          THEN Raise(got.exc) /\ UNCHANGED ret
          ELSE /\ ret' = [kind |-> "BitString", value |-> got.obj]
               /\ pc' = "return"
               /\ UNCHANGED err
    /\ UNCHANGED <<codec, mode, call, orig, bs, result, word_size, final_length,
                   cut_partial, self, args>>

\* self[i]
BsGetItem ==
    /\ codec = "bitstring" /\ call = "__getitem__" /\ pc = "entry"
    /\ LET got == __getitem__(self, args.i)
       IN IF got.exc # "none"
          THEN Raise(got.exc) /\ UNCHANGED ret
          ELSE /\ ret' = [kind |-> "int", value |-> got.value]
               /\ pc' = "return"
               /\ UNCHANGED err
    /\ UNCHANGED <<codec, mode, call, orig, bs, result, word_size, final_length,
                   cut_partial, self, args>>

\* self[i] = flag
BsSetItem ==
    /\ codec = "bitstring" /\ call = "__setitem__" /\ pc = "entry"
    /\ LET put == __setitem__(self, args.i, args.flag)
       IN IF put.exc # "none"
          THEN Raise(put.exc) /\ UNCHANGED self
          ELSE /\ self' = put.obj
               /\ pc' = "return"
               /\ UNCHANGED err
    /\ UNCHANGED <<codec, mode, call, orig, bs, result, word_size, final_length,
                   cut_partial, args, ret>>

\* self.run_length(flag)
BsRunLength ==
    /\ codec = "bitstring" /\ call = "run_length" /\ pc = "entry"
    /\ ret' = [kind |-> "int", value |-> BitString_run_length(self, args.flag)]
    /\ pc' = "return"
    /\ UNCHANGED <<codec, mode, call, err, orig, bs, result, word_size, final_length,
                   cut_partial, self, args>>

\* an index or bound argument: within SliceMargin of the ends
Indices(len) == (-len - SliceMargin)..(len + SliceMargin - 1)

\* one call on a BitString of at most MaxBSLen bits written as orig, or one
\* construction from a str or an iterable of at most MaxBSLen + 1 bits
InitBS ==
    /\ codec = "bitstring"
    /\ mode = "call"
    /\ call \in {"BitString", "slice", "__getitem__", "__setitem__", "run_length"}
    /\ pc = "entry"
    /\ err = "none"
    /\ bs = <<>> /\ result = <<>>
    /\ word_size = 0 /\ final_length = 0 /\ cut_partial = FALSE
    /\ ret = NoRet
    /\ IF call = "BitString"
       THEN /\ orig \in BitStrings(MaxBSLen + 1)
            /\ self = EmptyBitString
            /\ \E kind \in {"str", "iter"},
                  n \in {None} \cup {Some(v) : v \in -1..(MaxBSLen + 1)} :
                  args = [NoArgs EXCEPT !.kind = kind, !.x = orig, !.n = n]
       ELSE /\ orig \in BitStrings(MaxBSLen)
            /\ self = __init__("str", orig, None).obj
            /\ IF call = "slice"
               THEN \E start \in {None} \cup {Some(v) : v \in Indices(Len(orig))},
                       stop \in {None} \cup {Some(v) : v \in Indices(Len(orig))},
                       step \in {None} \cup {Some(v) : v \in (-MaxBSLen - 2)..MaxBSLen} :
                       args = [NoArgs EXCEPT !.start = start, !.stop = stop,
                                             !.step = step]
               ELSE IF call = "run_length"
               THEN \E flag \in {None, Some(0), Some(1)} : args = [flag |-> flag]
               ELSE \E i \in Indices(Len(orig)), flag \in {0, 1} :
                       args = [NoArgs EXCEPT !.i = i, !.flag = flag]

NextBS ==
    \/ BsConstruct
    \/ BsSlice
    \/ BsGetItem
    \/ BsSetItem
    \/ BsRunLength

SpecBS == InitBS /\ [][NextBS]_vars

\* A program working on two BitStrings: self, and other, the value a
\* constructor or an operator returned last (kept in ret).  Each action is
\* one statement; lengths stay within MaxOpLen.
other == ret.value

OpsDone(name, exc) ==
    /\ call' = name
    /\ err' = exc
    /\ UNCHANGED <<codec, mode, pc, orig, bs, result, word_size, final_length,
                   cut_partial, args>>

Ops == codec = "bitstring" /\ mode = "ops"

\* self = BitString(x, n), self = BitString(x), self = BitString(bits, n)
OpsConstruct ==
    /\ Ops
    /\ \/ \E kind \in {"str", "iter"}, x \in BitStrings(MaxOpLen),
             n \in {None} \cup {Some(v) : v \in 0..MaxOpLen} :
             self' = __init__(kind, x, n).obj
       \/ \E bits \in (-all_bits(MaxOpLen))..all_bits(MaxOpLen), n \in 0..MaxOpLen :
             self' = BitStringInt(bits, n)
    /\ UNCHANGED ret
    /\ OpsDone("BitString", "none")

\* other = BitString(self)
OpsCopy ==
    /\ Ops
    /\ ret' = [kind |-> "BitString", value |-> self]
    /\ UNCHANGED self
    /\ OpsDone("BitString", "none")

\* self[i] = flag
OpsSetItem ==
    /\ Ops
    /\ \E i \in -1..MaxOpLen, flag \in {0, 1} :
          LET put == __setitem__(self, i, flag)
          IN self' = put.obj /\ OpsDone("__setitem__", put.exc)
    /\ UNCHANGED ret

\* other = self + other
OpsAdd ==
    /\ Ops
    /\ self.length + other.length <= MaxOpLen
    /\ ret' = [kind |-> "BitString", value |-> __add__(self, other)]
    /\ UNCHANGED self
    /\ OpsDone("__add__", "none")

\* self += other
OpsIAdd ==
    /\ Ops
    /\ self.length + other.length <= MaxOpLen
    /\ self' = __iadd__(self, other)
    /\ UNCHANGED ret
    /\ OpsDone("__iadd__", "none")

\* other = self << count
OpsLShift ==
    /\ Ops
    /\ \E count \in -1..MaxOpLen :
          LET got == __lshift__(self, count)
          IN /\ got.obj.length <= MaxOpLen
             /\ ret' = (IF got.exc = "none"
                        THEN [kind |-> "BitString", value |-> got.obj] ELSE ret)
             /\ OpsDone("__lshift__", got.exc)
    /\ UNCHANGED self

\* self <<= count
OpsILShift ==
    /\ Ops
    /\ \E count \in -1..MaxOpLen :
          LET got == __ilshift__(self, count)
          IN /\ self.length + count <= MaxOpLen
             /\ self' = got.obj
             /\ OpsDone("__ilshift__", got.exc)
    /\ UNCHANGED ret

\* other = self >> count
OpsRShift ==
    /\ Ops
    /\ \E count \in -1..(MaxOpLen + 1) :
          LET got == __rshift__(self, count)
          IN /\ ret' = (IF got.exc = "none"
                        THEN [kind |-> "BitString", value |-> got.obj] ELSE ret)
             /\ OpsDone("__rshift__", got.exc)
    /\ UNCHANGED self

\* self >>= count
OpsIRShift ==
    /\ Ops
    /\ \E count \in -1..(MaxOpLen + 1) :
          LET got == __irshift__(self, count)
          IN self' = got.obj /\ OpsDone("__irshift__", got.exc)
    /\ UNCHANGED ret

\* other = ~self
OpsInvert ==
    /\ Ops
    /\ ret' = [kind |-> "BitString", value |-> __invert__(self)]
    /\ UNCHANGED self
    /\ OpsDone("__invert__", "none")

\* self = BitString(), other = BitString()
InitBSOps ==
    /\ codec = "bitstring"
    /\ mode = "ops"
    /\ call = "BitString"
    /\ pc = "idle"
    /\ err = "none"
    /\ orig = <<>> /\ bs = <<>> /\ result = <<>>
    /\ word_size = 0 /\ final_length = 0 /\ cut_partial = FALSE
    /\ self = EmptyBitString
    /\ args = NoArgs
    /\ ret = [kind |-> "BitString", value |-> EmptyBitString]

NextBSOps ==
    \/ OpsConstruct
    \/ OpsCopy
    \/ OpsSetItem
    \/ OpsAdd
    \/ OpsIAdd
    \/ OpsLShift
    \/ OpsILShift
    \/ OpsRShift
    \/ OpsIRShift
    \/ OpsInvert

SpecBSOps == InitBSOps /\ [][NextBSOps]_vars

---------------------------------------------------------------------------
(* The properties checked.                                                 *)

Returned(c, f) == codec = c /\ call = f /\ pc = "return"

\* C1: WAH round trip.  For every word size w >= 2 and every non-empty bit
\* string s, compress(s, w) returns (c, f) and decompress(c, f, w) returns
\* exactly s: no call raises, every call runs to its return, and the bits
\* returned at the end are the bits given at the start.
WahRoundTrip ==
    (codec = "wah" /\ mode = "roundtrip" /\ word_size >= 2 /\ Len(orig) > 0)
    => /\ pc # "raise"
       /\ Returned("wah", "decompress") => result = orig
       /\ ~Returned("wah", "decompress") => ENABLED NextWAH

\* a round trip through a clamped run word and a padded final literal
WahRoundTripWitness ==
    /\ Returned("wah", "decompress") /\ mode = "roundtrip"
    /\ word_size = 3 /\ final_length = 2
    /\ Len(orig) >= 5 /\ \A i \in 1..4 : orig[i] = 1
    /\ result = orig

\* C2: BBC round trip.  For every non-empty bit string s,
\* decompress(compress(s)) returns exactly s: no call raises, and the bits
\* returned at the end are the bits given at the start.
BbcRoundTrip ==
    (codec = "bbc" /\ mode = "roundtrip" /\ Len(orig) > 0)
    => /\ pc # "raise"
       /\ Returned("bbc", "decompress") => result = orig

\* C3: when BBC decompress reads a header whose gap field is 7 and the
\* extension bytes (of a count of 7 or more, as create_atom writes them) are
\* all there, the iteration takes the gap count from the
\* extension (one byte if its leading bit is 0, else 15 bits over two bytes),
\* appends gap_count * 8 zero bits and goes on after the extension bytes (and
\* after the literal bytes the header declares).
BbcGapExtensionRead ==
    [][ ( /\ codec = "bbc" /\ call = "decompress" /\ pc = "loop" /\ pc' = "loop"
          /\ Len(bs) >= 2 * bits_per_byte
          /\ UInt(Slice(bs, 0, 3)) = 7
          /\ (bs[9] = 1 => Len(bs) >= 3 * bits_per_byte)
          /\ UInt(Slice(bs, 9, 2 * bits_per_byte)) >= 7 )
        => LET ext_bytes == IF bs[9] = 0 THEN 1 ELSE 2
               gap_count == UInt(Slice(bs, 9, (1 + ext_bytes) * bits_per_byte))
               is_dirty == bs[4] = 1
               special == UInt(Slice(bs, 4, 8))
               after == From(bs, (1 + ext_bytes) * bits_per_byte)
           IN /\ bs' = (IF is_dirty THEN after ELSE From(after, special * bits_per_byte))
              /\ Len(result') >= Len(result) + gap_count * bits_per_byte
              /\ \A i \in (Len(result) + 1)..(Len(result) + gap_count * bits_per_byte) :
                     result'[i] = 0
      ]_vars

\* C4: every iteration of the loop of BBC compress removes at least one bit
\* from the remaining input.
BbcCompressProgress ==
    [][ (codec = "bbc" /\ call = "compress" /\ pc = "loop" /\ pc' = "loop")
        => Len(bs') < Len(bs) ]_vars

\* C5: WAH decompress returns nothing when the length of the stream is not a
\* multiple of word_size (word_size >= 2, final_length in 1..word_size).
WahDecompressRejectsPartialWord ==
    ( /\ codec = "wah" /\ mode = "decode" /\ call = "decompress"
      /\ word_size >= 2 /\ 1 <= final_length /\ final_length <= word_size
      /\ Len(orig) % word_size # 0 )
    => pc # "return"

\* the bits left do not hold the header, or not the literal bytes it declares
Truncated(b) ==
    /\ Len(b) > 0
    /\ \/ Len(b) < bits_per_byte
       \/ /\ b[4] = 0
          /\ Len(b) - bits_per_byte < UInt(Slice(b, 4, 8)) * bits_per_byte

\* C6: an iteration of BBC decompress that finds fewer than 8 bits where a
\* header is expected, or fewer bits than the special * 8 literal bits the
\* header declares, raises ValueError; and nothing follows a raise, so no
\* result is returned.
BbcDecompressRejectsTruncated ==
    [][ /\ pc # "raise"
        /\ (codec = "bbc" /\ call = "decompress" /\ pc = "loop" /\ Truncated(bs))
           => (pc' = "raise" /\ err' = "ValueError")
      ]_vars

\* a stream cut inside the literal bytes its second header declares
BbcDecompressRejectsTruncatedWitness ==
    /\ codec = "bbc" /\ mode = "decode" /\ call = "decompress"
    /\ pc = "raise" /\ err = "ValueError"
    /\ Len(bs) >= bits_per_byte /\ Len(bs) < Len(orig)
    /\ Truncated(bs)

\* C7: the final_length compress returns is 1 + r when the last word emitted
\* is a literal holding only r < word_size - 1 source bits, and word_size
\* otherwise (a run word, or a literal holding a full section); so
\* 2 <= final_length <= word_size.
WahFinalLength ==
    [][ (codec = "wah" /\ call = "compress" /\ pc = "loop" /\ pc' = "loop"
         /\ Len(bs') = 0)
        => LET r == Len(bs) - Len(bs')
               last_word == From(result', Len(result))
           IN /\ Len(last_word) = word_size
              /\ final_length' = (IF last_word[1] = 0 /\ r < word_size - 1
                                  THEN 1 + r ELSE word_size)
              /\ 2 <= final_length' /\ final_length' <= word_size
      ]_vars

\* compress returned after a run word and a final literal of one source bit
WahFinalLengthWitness ==
    /\ Returned("wah", "compress")
    /\ word_size = 4 /\ Len(orig) = 7 /\ final_length = 2
    /\ Len(result) = 2 * word_size /\ result[1] = 1 /\ result[5] = 0

WahInvalidWordSizeRaises ==
    (codec = "wah" /\ word_size < 2 /\ Len(orig) > 0 /\ pc # "entry")
    => (pc = "raise" /\ err = "ValueError" /\ result = <<>>)

\* WAH decompress raised at word_size 1 on a non-empty stream
WahInvalidWordSizeRaisesWitness ==
    /\ codec = "wah" /\ call = "decompress" /\ word_size = 1
    /\ final_length = 1 /\ Len(orig) > 0 /\ pc = "raise"

\* C10: WAH decompress raises whenever final_length is outside
\* 1..word_size, for every non-empty stream and word_size >= 2, whatever the
\* final word of the stream is.
WahInvalidFinalLengthRaises ==
    ( /\ codec = "wah" /\ mode = "decode" /\ call = "decompress"
      /\ Len(orig) > 0 /\ word_size >= 2
      /\ ~(1 <= final_length /\ final_length <= word_size)
      /\ pc # "entry" )
    => (pc = "raise" /\ err = "ValueError")

\* WAH decompress raised at final_length 0 on a stream ending in a run word
WahInvalidFinalLengthRaisesWitness ==
    /\ codec = "wah" /\ mode = "decode" /\ call = "decompress"
    /\ word_size = 4 /\ final_length = 0
    /\ Len(orig) = 2 * word_size /\ orig[5] = 1
    /\ pc = "raise"

\* b is n >= 1 copies of one bit
Uniform(b) == Len(b) >= 1 /\ \A i \in 1..Len(b) : b[i] = b[1]

\* the largest count a run word holds
MaxRunCount(w) == 2 ^ (w - 2) - 1

\* C11: WAH run boundary.  For word_size w >= 3, a fill bit b and
\* 1 <= k <= 2^(w-2) - 1, compress of exactly k * (w - 1) copies of b does
\* not raise and returns exactly one word: bit 1, then b, then k as an
\* unsigned (w - 2)-bit number, with final_length = w.
WahRunBoundary ==
    ( /\ codec = "wah" /\ call = "compress" /\ word_size >= 3
      /\ Uniform(orig) /\ Len(orig) % (word_size - 1) = 0
      /\ Len(orig) \div (word_size - 1) <= MaxRunCount(word_size) )
    => /\ pc # "raise"
       /\ pc = "return" =>
            /\ Len(result) = word_size
            /\ result[1] = 1 /\ result[2] = orig[1]
            /\ UInt(From(result, 2)) = Len(orig) \div (word_size - 1)
            /\ final_length = word_size

\* 7 sections of ones at word_size 5, the largest count of its run word
WahRunBoundaryWitness ==
    /\ Returned("wah", "compress")
    /\ word_size = 5 /\ Len(orig) = 28 /\ Uniform(orig) /\ orig[1] = 1
    /\ result = <<1, 1, 1, 1, 1>>

\* the i-th word_size-bit word of r, i >= 1
Word(r, w, i) == Slice(r, (i - 1) * w, i * w)

\* C12: WAH run clamping.  No iteration of compress raises; every run
\* word it emits has a count c with 1 <= c <= 2^(word_size-2) - 1; and a
\* uniform input of k whole sections, k above that maximum, is returned as
\* run words of its fill bit whose counts sum to k, all but the last equal
\* to the maximum.
WahRunClamping ==
    [][ (codec = "wah" /\ call = "compress" /\ pc = "loop")
        => /\ pc' # "raise"
           /\ (pc' = "loop" /\ result'[Len(result) + 1] = 1)
              => LET c == UInt(From(result', Len(result) + 2))
                 IN /\ Len(result') = Len(result) + word_size
                    /\ 1 <= c /\ c <= MaxRunCount(word_size)
           /\ ( /\ pc' = "return" /\ word_size >= 3
                /\ Uniform(orig) /\ Len(orig) % (word_size - 1) = 0
                /\ Len(orig) \div (word_size - 1) > MaxRunCount(word_size) )
              => LET k == Len(orig) \div (word_size - 1)
                     max == MaxRunCount(word_size)
                     n == (k + max - 1) \div max
                 IN /\ Len(result) = n * word_size
                    /\ \A i \in 1..n :
                          LET word == Word(result, word_size, i)
                          IN /\ word[1] = 1 /\ word[2] = orig[1]
                             /\ UInt(From(word, 2))
                                  = (IF i < n THEN max ELSE k - (n - 1) * max)
      ]_vars

\* 5 sections of zeros at word_size 4: a run word of 3 and a run word of 2
WahRunClampingWitness ==
    /\ Returned("wah", "compress")
    /\ word_size = 4 /\ Len(orig) = 15 /\ Uniform(orig) /\ orig[1] = 0
    /\ result = <<1, 0, 1, 1, 1, 0, 1, 0>>

\* b starts with a complete uniform section that a run word can encode
RunStart(b, w) ==
    /\ w >= 3 /\ Len(b) >= w - 1
    /\ \A i \in 1..(w - 1) : b[i] = b[1]

\* C13: WAH literal word.  When the remaining input does not start with a
\* complete uniform section that can be run-encoded, the iteration of
\* compress takes exactly the next m = min(word_size - 1, remaining) bits
\* and emits exactly one word: bit 0, those m bits unchanged, then
\* word_size - 1 - m zero bits.
WahLiteralWord ==
    [][ (codec = "wah" /\ call = "compress" /\ pc = "loop" /\ Len(bs) > 0
         /\ ~RunStart(bs, word_size))
        => LET m == Min(word_size - 1, Len(bs))
           IN /\ pc' = "loop"
              /\ bs' = From(bs, m)
              /\ result' = result \o <<0>> \o Slice(bs, 0, m)
                                  \o Rep(0, word_size - 1 - m)
      ]_vars

\* compress of '1' at word_size 4 returned 0100
WahLiteralWordWitness ==
    /\ Returned("wah", "compress")
    /\ word_size = 4 /\ orig = <<1>>
    /\ result = <<0, 1, 0, 0>>

\* the number of whole all-zero bytes b starts with
ZeroBytes(b) ==
    CHOOSE n \in 0..(Len(b) \div 8) :
        /\ \A i \in 1..(8 * n) : b[i] = 0
        /\ n = Len(b) \div 8 \/ \E i \in 1..8 : b[8 * n + i] = 1

\* the number of whole bytes with a set bit b starts with
NonZeroBytes(b) ==
    CHOOSE n \in 0..(Len(b) \div 8) :
        /\ \A j \in 0..(n - 1) : \E i \in 1..8 : b[8 * j + i] = 1
        /\ n = Len(b) \div 8 \/ \A i \in 1..8 : b[8 * n + i] = 0

\* the gap bytes an atom of gap k carries after its header byte
GapBytes(k) ==
    IF k <= 6 THEN <<>>
    ELSE IF k <= 127 THEN UIntBits(k, 8)
    ELSE <<1>> \o UIntBits(k, 15)

\* the header gap field of an atom of gap k
GapField(k) == UIntBits(Min(k, 7), 3)

\* C14: BBC gap-only input.  compress of k all-zero bytes, k >= 1, returns
\* exactly one atom: the header gap field (k for k <= 6, else 7), dirty
\* flag 0, special 0, then no extension for k <= 6, one byte of value k for
\* 7 <= k <= 127, or bit 1 and k in 15 bits for k >= 128; no literal bytes.
BbcGapOnly ==
    ( /\ codec = "bbc" /\ call = "compress"
      /\ Len(orig) >= bits_per_byte /\ Len(orig) % bits_per_byte = 0
      /\ ZeroBytes(orig) = Len(orig) \div bits_per_byte )
    => /\ pc # "raise"
       /\ pc = "loop" => (bs = orig /\ result = <<>>) \/ bs = <<>>
       /\ (pc = "loop" /\ bs = <<>>) \/ pc = "return" =>
             LET k == Len(orig) \div bits_per_byte
             IN result = GapField(k) \o <<0>> \o <<0, 0, 0, 0>> \o GapBytes(k)

\* 6, 127 and 128 all-zero bytes
BbcGapOnlyWitness6 ==
    /\ Returned("bbc", "compress") /\ Len(orig) = 48 /\ Count1(orig) = 0
    /\ result = <<1,1,0,0,0,0,0,0>>

BbcGapOnlyWitness ==
    /\ Returned("bbc", "compress") /\ Len(orig) = 128 * 8 /\ Count1(orig) = 0
    /\ result = <<1,1,1,0,0,0,0,0>> \o <<1,0,0,0,0,0,0,0>> \o <<1,0,0,0,0,0,0,0>>

\* the atom one iteration of compress appends, in parts, for gap k
AtomHeader(r, r2) == Slice(r2, Len(r), Len(r) + bits_per_byte)
AtomPayload(r, r2, k) == From(r2, Len(r) + bits_per_byte + Len(GapBytes(k)))

BbcDirtyByteRuleWitnessLiteral ==
    /\ Returned("bbc", "compress")
    /\ orig = <<0,0,0,0,0,0,0,1>> \o <<0,0,0,0,0,1,1,1>>
    /\ result = <<0,0,0,0,0,0,1,0>> \o orig

\* C16: BBC literal limit.  In an iteration of compress on whole bytes that
\* emits a literal atom, the atom takes the bytes up to the first all-zero
\* byte, the end of the input or 15 bytes, whichever comes first: special
\* is their number, the payload is those bytes, and the rest is left.
BbcLiteralLimit ==
    [][ LET k == ZeroBytes(bs)
            t == From(bs, k * bits_per_byte)
            n == Min(15, NonZeroBytes(t))
            header == AtomHeader(result, result')
            payload == AtomPayload(result, result', k)
        IN (codec = "bbc" /\ call = "compress" /\ pc = "loop"
            /\ Len(bs) % bits_per_byte = 0 /\ Len(t) >= bits_per_byte
            /\ pc' = "loop" /\ header[4] = 0)
           => /\ UInt(From(header, 4)) = n
              /\ payload = Slice(t, 0, n * bits_per_byte)
              /\ bs' = From(t, n * bits_per_byte)
      ]_vars

\* 16 bytes 00110010: an atom of 15 literals, then an atom for the 16th
BbcLiteralLimitWitness ==
    /\ Returned("bbc", "compress")
    /\ orig = RepByte(<<0,0,1,1,0,0,1,0>>, 16)
    /\ result = <<0,0,0,0,1,1,1,1>> \o RepByte(<<0,0,1,1,0,0,1,0>>, 15)
                  \o <<0,0,0,0,0,0,0,1>> \o <<0,0,1,1,0,0,1,0>>

\* s[start:stop:step] of Python for a sequence s and a step >= 1 or None
PySlice(s, start, stop, step) ==
    LET n == Len(s)
        Clamp(v) == Max(0, Min(n, IF v < 0 THEN v + n ELSE v))
        lo == IF start = None THEN 0 ELSE Clamp(start[1])
        hi == IF stop = None THEN n ELSE Clamp(stop[1])
        k == IF step = None THEN 1 ELSE step[1]
        count == IF hi > lo THEN (hi - lo + k - 1) \div k ELSE 0
    IN [d \in 1..count |-> s[lo + (d - 1) * k + 1]]

\* C17: BitString slicing agrees with Python slicing.  For a BitString of
\* n bits that reads as s, every start and stop in [-n-5, n+5) or omitted
\* and every step in 1..n-1 or omitted, slice(start, stop, step) raises
\* nothing and returns the bits of s[start:stop:step].
BsSliceAgreesWithPython ==
    ( /\ codec = "bitstring" /\ call = "slice"
      /\ args.step = None \/ (1 <= args.step[1] /\ args.step[1] <= Len(orig) - 1) )
    => /\ pc # "raise"
       /\ pc = "return" =>
            __str__(ret.value) = PySlice(orig, args.start, args.stop, args.step)

\* C18: BitString slice rejects a step <= 0.  slice with a given step that
\* is zero or negative raises the error of an unsupported step and returns
\* no BitString, whatever the length, start and stop.
BsSliceStepRejected ==
    ( /\ codec = "bitstring" /\ call = "slice" /\ pc # "entry"
      /\ args.step # None /\ args.step[1] <= 0 )
    => /\ pc = "raise"
       /\ err \in {"NotImplementedError", "ValueError"}
       /\ ret = NoRet

\* C19: BitString(x, n) takes the first n bits.  For a str or an iterable
\* x of more than n bits and a given length n >= 0, the constructor returns
\* the BitString of the first n bits of x.
BsConstructTakesFirstBits ==
    ( /\ codec = "bitstring" /\ call = "BitString" /\ pc # "entry"
      /\ args.n # None /\ args.n[1] >= 0 /\ Len(args.x) > args.n[1] )
    => /\ pc = "return"
       /\ self.length = args.n[1]
       /\ __str__(self) = Slice(args.x, 0, args.n[1])

\* C20: BitString index out of range.  self[i] and self[i] = flag with
\* i < 0 or i >= length raise IndexError, return nothing, and leave the
\* bits and the length of the BitString as they were.
BsIndexOutOfRange ==
    [][ ( /\ codec = "bitstring" /\ call \in {"__getitem__", "__setitem__"}
          /\ pc = "entry"
          /\ args.i < 0 \/ args.i >= self.length )
        => /\ pc' = "raise"
           /\ err' = "IndexError"
           /\ self' = self
           /\ ret' = NoRet
      ]_vars

\* a write at -1 and a read at the length, on 3 bits
BsIndexOutOfRangeWitness ==
    /\ codec = "bitstring" /\ call = "__setitem__" /\ pc = "raise"
    /\ err = "IndexError"
    /\ orig = <<1, 0, 1>> /\ args.i = -1 /\ args.flag = 0
    /\ self = [bits |-> 5, length |-> 3]

BsIndexOutOfRangeWitnessRead ==
    /\ codec = "bitstring" /\ call = "__getitem__" /\ pc = "raise"
    /\ err = "IndexError"
    /\ orig = <<1, 0, 1>> /\ args.i = 3

\* C21: WAH compress is injective on (compressed bits, final_length) only.
\* At a fixed word_size, what compress returns for the input is what the
\* function wah_compress gives; no other input that is not longer
\* gives the same bits with the same final_length; and the input extended
\* by zero bits that stay inside its last partial section gives the same
\* bits with another final_length.
WahInjectiveWithFinalLength ==
    Returned("wah", "compress")
    => /\ wah_compress(orig, word_size)
            = [exc |-> "none", result |-> result, final_length |-> final_length]
       /\ \A second \in BitStrings(MaxBits) \cup UniformStrings(MaxRunBits) :
             LET c == wah_compress(second, word_size)
             IN (/\ Len(second) <= Len(orig)
                 /\ c.exc = "none" /\ c.result = result /\ c.final_length = final_length)
                => second = orig
       /\ LET partial == Len(orig) % (word_size - 1)
          IN partial > 0 =>
               \A j \in 1..(word_size - 2 - partial) :
                  LET c == wah_compress(orig \o Rep(0, j), word_size)
                  IN /\ c.exc = "none"
                     /\ c.result = result
                     /\ c.final_length # final_length

\* '1' at word_size 4: 0100 with final_length 2, where '10' gives 0100 with 3
WahInjectiveWithFinalLengthWitness ==
    /\ Returned("wah", "compress")
    /\ word_size = 4 /\ orig = <<1>>
    /\ result = <<0, 1, 0, 0>> /\ final_length = 2
    /\ wah_compress(<<1, 0>>, 4)
         = [exc |-> "none", result |-> <<0, 1, 0, 0>>, final_length |-> 3]

\* C22: BBC create_atom.  create_atom(g, dirty, special, literals) raises
\* ValueError for g > 32767 and otherwise returns: the 3-bit gap field (g
\* for g <= 6, else 7), the dirty flag in bit 3, special in bits 4..7, then
\* no extension for g <= 6, one byte equal to g for 7 <= g <= 127, or bit 1,
\* the high 7 bits and the low 8 bits of g for 128 <= g <= 32767, then the
\* literal bytes if and only if the atom is not dirty.
BbcCreateAtomFormat ==
    (codec = "bbc" /\ call = "create_atom" /\ pc # "entry")
    => IF args.gaps > 32767
       THEN pc = "raise" /\ err = "ValueError" /\ ret = NoRet
       ELSE /\ pc = "return"
            /\ ret.value = GapField(args.gaps)
                           \o <<IF args.is_dirty THEN 1 ELSE 0>>
                           \o UIntBits(args.special, 4)
                           \o GapBytes(args.gaps)
                           \o (IF args.is_dirty THEN <<>> ELSE args.literals)

\* a dirty atom of gap 32767 given a literal byte: header, 11111111 11111111
BbcCreateAtomFormatWitness ==
    /\ codec = "bbc" /\ call = "create_atom" /\ pc = "return"
    /\ args.gaps = 32767 /\ args.is_dirty /\ args.special = 5
    /\ Len(args.literals) = 8
    /\ ret.value = <<1,1,1,1,0,1,0,1>> \o Rep(1, 16)

BbcCreateAtomFormatWitnessRaise ==
    /\ codec = "bbc" /\ call = "create_atom" /\ pc = "raise"
    /\ args.gaps = 32768

\* the number of zero bits b starts with
LeadingZeros(b) ==
    IF \A i \in 1..Len(b) : b[i] = 0 THEN Len(b)
    ELSE (CHOOSE i \in 1..Len(b) : b[i] = 1 /\ \A j \in 1..(i - 1) : b[j] = 0) - 1

\* C23: BBC gap detection.  get_gaps(b) returns the gap count min(32767, z),
\* z the number of whole all-zero bytes b starts with (its leading zero bits
\* divided by 8, rounded down), and as tail b without exactly that many
\* bytes: zero bits short of a byte stay, and so do the zero bytes past
\* 32767.
BbcGetGapsCount ==
    (codec = "bbc" /\ call = "get_gaps" /\ pc # "entry")
    => LET input == GapInput(args)
           z == LeadingZeros(input) \div 8
           gaps == IF z > 32767 THEN 32767 ELSE z
       IN /\ pc = "return"
          /\ ret.value.gaps = gaps
          /\ ret.value.tail = SubSeq(input, 8 * gaps + 1, Len(input))

\* 32769 zero bytes and a 1: gap 32767, two zero bytes and the 1 left
BbcGetGapsCountWitness ==
    /\ codec = "bbc" /\ call = "get_gaps" /\ pc = "return"
    /\ args = [zero_bits |-> 32769 * 8, rest |-> <<1>>]
    /\ ret.value.gaps = 32767
    /\ ret.value.tail = Rep(0, 16) \o <<1>>

\* 15 zero bits: one gap byte, 7 zero bits left
BbcGetGapsCountWitnessPartial ==
    /\ codec = "bbc" /\ call = "get_gaps" /\ pc = "return"
    /\ args = [zero_bits |-> 15, rest |-> <<>>]
    /\ ret.value = [tail |-> Rep(0, 7), gaps |-> 1]

\* C24: BBC decompress of a dirty atom.  An iteration of decompress on an
\* atom whose dirty flag is set, whatever its special field, appends the
\* gap and then exactly one byte with exactly one set bit, at position
\* special from the left, and consumes the header byte only; the output
\* stays a whole number of bytes.
BbcDecompressDirtyAtom ==
    [][ (codec = "bbc" /\ call = "decompress" /\ pc = "loop"
         /\ Len(bs) >= 8 /\ bs[4] = 1)
        => LET gap == 8 * UInt(Slice(bs, 0, 3))
               special == UInt(Slice(bs, 4, 8))
               byte == From(result', Len(result) + gap)
           IN /\ pc' = "loop"
              /\ Slice(result', 0, Len(result) + gap) = result \o Rep(0, gap)
              /\ Len(byte) = 8
              /\ Count1(byte) = 1
              /\ special <= 7 => byte[special + 1] = 1
              /\ bs' = From(bs, 8)
              /\ Len(result') % 8 = 0
      ]_vars

\* the number of bits equal to f that s starts with
LeadingRun(s, f) ==
    CHOOSE n \in 0..Len(s) :
        /\ \A i \in 1..n : s[i] = f
        /\ n = Len(s) \/ s[n + 1] # f

\* C25: BitString.run_length.  run_length(flag) returns the number of
\* leading bits equal to flag, flag being the first bit when omitted: 0 for
\* an empty BitString or a first bit other than flag, the full length for a
\* uniform BitString.
BsRunLengthCount ==
    (codec = "bitstring" /\ call = "run_length" /\ pc # "entry")
    => /\ pc = "return"
       /\ ret.value =
            (IF Len(orig) = 0 THEN 0
             ELSE LeadingRun(orig, IF args.flag = None THEN orig[1] ELSE args.flag[1]))

\* '1101'.run_length(1) = 2, '0000'.run_length() = 4, '0111'.run_length(1) = 0
BsRunLengthCountWitness ==
    /\ codec = "bitstring" /\ call = "run_length" /\ pc = "return"
    /\ orig = <<1, 1, 0, 1>> /\ args.flag = Some(1) /\ ret.value = 2

BsRunLengthCountWitnessUniform ==
    /\ codec = "bitstring" /\ call = "run_length" /\ pc = "return"
    /\ orig = <<0, 0, 0, 0>> /\ args.flag = None /\ ret.value = 4

BsRunLengthCountWitnessOther ==
    /\ codec = "bitstring" /\ call = "run_length" /\ pc = "return"
    /\ orig = <<0, 1, 1, 1>> /\ args.flag = Some(1) /\ ret.value = 0

\* length >= 0 and the stored integer is in [0, 2^length)
WellFormed(b) == b.length >= 0 /\ 0 <= b.bits /\ b.bits < 2 ^ b.length

\* C26: BitString representation invariant.  After any sequence of
\* constructions, index writes, concatenations, shifts and complements,
\* every BitString has length >= 0 and a stored integer in [0, 2^length),
\* and two BitStrings are equal (same length, same integer) exactly when
\* they have the same length and the same bit at every index.
BsRepresentation ==
    (codec = "bitstring" /\ mode = "ops")
    => /\ WellFormed(self)
       /\ WellFormed(other)
       /\ __eq__(self, other)
            <=> /\ self.length = other.length
                /\ \A i \in 0..(self.length - 1) :
                      __getitem__(self, i).value = __getitem__(other, i).value

\* self += other gave 101 from 10 and 1; ~self gave 010
BsRepresentationWitness ==
    /\ codec = "bitstring" /\ mode = "ops" /\ call = "__iadd__"
    /\ self = [bits |-> 5, length |-> 3]
    /\ other = [bits |-> 1, length |-> 1]

BsRepresentationWitnessInvert ==
    /\ codec = "bitstring" /\ mode = "ops" /\ call = "__invert__"
    /\ self = [bits |-> 5, length |-> 3]
    /\ other = [bits |-> 2, length |-> 3]

\* the position in r of the last literal word, 0 when there is none
LastLiteral(r, w) ==
    LET literals == {i \in 1..(Len(r) \div w) : Word(r, w, i)[1] = 0}
    IN IF literals = {} THEN 0
       ELSE CHOOSE i \in literals : \A j \in literals : j <= i

\* the bits the first n words of r stand for: a run word for count sections
\* of its fill bit, a literal word for its payload, the last literal word of
\* r for the first fl - 1 bits of its payload
RECURSIVE Expand(_, _, _, _)
Expand(r, w, fl, n) ==
    IF n = 0 THEN <<>>
    ELSE LET word == Word(r, w, n)
         IN Expand(r, w, fl, n - 1)
            \o (IF word[1] = 1 THEN Rep(word[2], UInt(From(word, 2)) * (w - 1))
                ELSE IF n = LastLiteral(r, w) THEN Slice(word, 1, fl)
                ELSE From(word, 1))

\* C27: WAH compress loop invariant.  Before and after every iteration of
\* the loop of compress, and at its return, result is a whole number of
\* word_size-bit words, and the bits those words stand for (the last
\* literal word cut to final_length - 1 bits), followed by the input not
\* yet consumed, are the original input.
WahLoopInvariant ==
    (codec = "wah" /\ call = "compress" /\ pc \in {"loop", "return"})
    => /\ Len(result) % word_size = 0
       /\ Expand(result, word_size, final_length, Len(result) \div word_size) \o bs
            = orig

\* '1100001' at word_size 4 after two iterations: a literal, a run of zeros,
\* the last bit still to come
WahLoopInvariantWitness ==
    /\ codec = "wah" /\ call = "compress" /\ pc = "loop"
    /\ word_size = 4 /\ orig = <<1, 1, 0, 0, 0, 0, 1>>
    /\ result = <<0, 1, 1, 0>> \o <<1, 0, 0, 1>>
    /\ bs = <<1>>

\* b has no 7 all-zero bytes in a row
ShortGaps(b) ==
    \A j \in 0..(Len(b) \div 8 - 7) : \E i \in 1..56 : b[8 * j + i] = 1

\* C28: restricted BBC round trip.  For a non-empty input of whole bytes
\* with fewer than 7 all-zero bytes in a row, compress raises nothing, ends,
\* and returns whole bytes, and decompress of them raises nothing, ends, and
\* returns the input.
BbcRestrictedRoundTrip ==
    ( /\ codec = "bbc" /\ mode = "roundtrip"
      /\ Len(orig) > 0 /\ Len(orig) % 8 = 0 /\ ShortGaps(orig) )
    => /\ pc # "raise"
       /\ Returned("bbc", "compress") => Len(result) % 8 = 0
       /\ Returned("bbc", "decompress") => result = orig
       /\ ~Returned("bbc", "decompress") => ENABLED NextBBC

\* 6 zero bytes, a dirty byte and a literal byte came back
BbcRestrictedRoundTripWitness ==
    /\ Returned("bbc", "decompress") /\ mode = "roundtrip"
    /\ orig = Rep(0, 48) \o <<0,0,0,0,0,0,0,1>> \o <<0,0,0,0,0,0,0,0>>
    /\ result = orig

BbcRestrictedRoundTripWitnessLiterals ==
    /\ Returned("bbc", "decompress") /\ mode = "roundtrip"
    /\ orig = RepByte(<<0,0,1,1,0,0,1,0>>, 16) \o Rep(0, 8)
    /\ result = orig

\* C29: WAH at word_size 2.  compress never emits a run word: every input
\* bit consumed has become one literal word, 0 and then the bit, so that
\* the compressed length is twice the input length, and final_length is 2.
WahWordSizeTwo ==
    (codec = "wah" /\ call = "compress" /\ word_size = 2 /\ pc # "entry")
    => LET consumed == Len(orig) - Len(bs)
       IN /\ Len(orig) > 0 => pc # "raise"
          /\ pc \in {"loop", "return"} =>
               /\ Len(result) = 2 * consumed
               /\ \A i \in 1..consumed :
                     result[2 * i - 1] = 0 /\ result[2 * i] = orig[i]
               /\ final_length = 2
          /\ pc = "return" => Len(result) = 2 * Len(orig)

\* 32 ones at word_size 2: 64 bits, no run word
WahWordSizeTwoWitness ==
    /\ Returned("wah", "compress")
    /\ word_size = 2 /\ orig = Rep(1, 32)
    /\ Len(result) = 64 /\ final_length = 2

\* C30: WAH greedy runs.  In the words compress has emitted, a run word
\* with a count below 2^(word_size-2) - 1 is never directly followed by a
\* run word of the same fill bit, and for word_size >= 3 a literal word
\* that holds a full section is never all zeros or all ones.
WahGreedyRuns ==
    (codec = "wah" /\ call = "compress" /\ pc \in {"loop", "return"})
    => LET n == Len(result) \div word_size
       IN /\ \A i \in 1..(n - 1) :
                LET word == Word(result, word_size, i)
                    next == Word(result, word_size, i + 1)
                IN (word[1] = 1 /\ UInt(From(word, 2)) < MaxRunCount(word_size))
                   => ~(next[1] = 1 /\ next[2] = word[2])
          /\ word_size >= 3 =>
                \A i \in 1..n :
                   LET word == Word(result, word_size, i)
                       full == ~(i = LastLiteral(result, word_size)
                                 /\ final_length < word_size)
                   IN (word[1] = 0 /\ full) => ~Uniform(From(word, 1))

\* 0000 1111 at word_size 5: a run of zeros of count 1 < 7, then a run of ones
WahGreedyRunsWitness ==
    /\ Returned("wah", "compress")
    /\ word_size = 5 /\ orig = <<0, 0, 0, 0, 1, 1, 1, 1>>
    /\ result = <<1, 0, 0, 0, 1>> \o <<1, 1, 0, 0, 1>>

\* 000 000 01 at word_size 4: a run of 2 < 3, then the literal 010
WahGreedyRunsWitnessLiteral ==
    /\ Returned("wah", "compress")
    /\ word_size = 4 /\ orig = <<0, 0, 0, 0, 0, 0, 0, 1>>
    /\ result = <<1, 0, 1, 0>> \o <<0, 0, 1, 0>>

===========================================================================
